---- MODULE Spec2Model ----
(***************************************************************************)
(* Model of the locspan crate: Span (src/span.rs), Meta and the recursive  *)
(* metadata mapping (src/meta.rs), and the metadata-blind comparison       *)
(* traits (src/strip.rs, src/strip/*.rs).                                  *)
(*                                                                         *)
(* Six specifications share the module's variables:                        *)
(*   Spec       a Span object driven by every Span operation;              *)
(*   LocationSpec  a Location driven by until and with;                    *)
(*   MapSpec    the recursive metadata mapping applied to bounded trees;   *)
(*   PairSpec   the one-level mappings applied to a Meta or a Loc pair;    *)
(*   StripSpec  the stripped comparison traits applied to two values;      *)
(*   OrdSpec    the same traits applied to three values of an ordered type.*)
(***************************************************************************)
EXTENDS Integers, Sequences, FiniteSets, TLC

(***************************************************************************)
(* Bounds.                                                                 *)
(***************************************************************************)
\* Width of usize in the model (the crate's usize is the machine word).
UsizeBits == 2

UsizeMax == 2 ^ UsizeBits - 1

Usize == 0 .. UsizeMax

Max(a, b) == IF a >= b THEN a ELSE b

Min(a, b) == IF a <= b THEN a ELSE b

(***************************************************************************)
(* Span: src/span.rs                                                       *)
(***************************************************************************)
Span(s, e) == [start |-> s, end |-> e]

\* Mutant of Span::new: the end is stored as given, without the clamp.
Span_new_NoClamp(start, end) == Span(start, end)

\* Mutant of Span::union: two spans that do not overlap are not joined.
Span_union_NoGap(self, other) ==
    IF self.end < other.start \/ other.end < self.start
    THEN self
    ELSE Span(Min(self.start, other.start), Max(self.end, other.end))

\* Mutant of Span::inter: the end is not clamped to the start.
Span_inter_NoClamp(self, other) ==
    Span(Max(self.start, other.start), Min(self.end, other.end))

\* Mutant of Span::inter: the result starts where self starts.
Span_inter_SelfStart(self, other) ==
    LET start == self.start
    IN  Span(start, Max(start, Min(self.end, other.end)))

\* Mutant of Span::append: only the start is extended.
Span_append_StartOnly(self, other) ==
    Span(Min(self.start, other.start), self.end)

\* Mutant of Span::clear: the end is moved back to the start.
Span_clear_AtStart(self) == Span(self.start, self.start)

Span_new(start, end) == Span(start, Max(start, end))

\* Every span a caller can build through the public constructor.
Spans == {Span_new(s, e) : s \in Usize, e \in Usize}

Span_contains(self, index) == self.start >= index /\ index < self.end

Span_set_start(self, start) == Span(start, Max(start, self.end))

Span_set_end(self, end) == Span(self.start, Max(self.start, end))

Span_union(self, other) ==
    Span(Min(self.start, other.start), Max(self.end, other.end))

Span_append(self, other) ==
    Span(Min(self.start, other.start), Max(self.end, other.end))

Span_inter(self, other) ==
    LET start == Max(self.start, other.start)
    IN  Span(start, Max(start, Min(self.end, other.end)))

Span_clear(self) == Span(self.end, self.end)

Span_from_usize(pos) == Span_new(pos, pos)

Span_from_range(start, end) == Span_new(start, end)

Span_next(self) == Span_from_usize(self.end)

\* `self.end += count` when the addition does not overflow, and in a build
\* without overflow checks (two's complement wrapping) when it does.
Span_push(self, count) == Span(self.start, (self.end + count) % (UsizeMax + 1))

\* `self.end += count` overflows usize.
PushOverflows(self, count) == self.end + count > UsizeMax

\* `self.end - self.start` when the subtraction does not underflow, and in a
\* build without overflow checks (two's complement wrapping) when it does.
Span_len(self) == (self.end - self.start + UsizeMax + 1) % (UsizeMax + 1)

\* `self.end - self.start` underflows usize.
LenUnderflows(self) == self.end < self.start

(***************************************************************************)
(* Location: src/location.rs                                               *)
(***************************************************************************)
\* File identifiers of the locations.
Files == {"f1", "f2"}

\* Location { file, span }.
Location(file, s) == [file |-> file, span |-> s]

\* Location::new.
Location_new(file, s) == Location(file, s)

\* Mutant of Location::until: the end is stored as given.
Location_until_NoClamp(self, end) ==
    [self EXCEPT !.span = Span(self.span.start, end)]

\* Location::until: `self.span.set_end(end); self`.
Location_until(self, end) == [self EXCEPT !.span = Span_set_end(self.span, end)]

\* Location::with: `self.span.append(span); self`.
Location_with(self, s) == [self EXCEPT !.span = Span_append(self.span, s)]

VARIABLES
    span,       \* the Span object under test
    old,        \* the value of the object before the last operation
    op,         \* name of the last operation
    argPos,     \* usize argument of the last operation
    argSpan,    \* Span argument of the last operation
    ret,        \* Span returned by the last operation
    retBool,    \* bool returned by the last operation
    retUsize,   \* usize returned by the last operation
    panicked,   \* the last operation panicked (arithmetic overflow check)
    tree,       \* MapSpec: the tree of nested metadata pairs given to the mapping
    fcfg,       \* MapSpec: the transformation function (its table and failures)
    mop,        \* MapSpec: name of the last mapping operation
    out,        \* MapSpec: value returned by the last mapping operation
    log,        \* MapSpec: metadata the function was invoked on, in order
    ty,         \* StripSpec: type of the compared values
    a,          \* StripSpec: left value
    b,          \* StripSpec: right value
    c,          \* StripSpec: third value (transitivity)
    bmeta,      \* StripSpec: metadata type of b ("M" as for a, or "N")
    sop,        \* StripSpec: name of the last comparison operation
    sres,       \* StripSpec: its result
    location,   \* LocationSpec: the Location object
    oldLocation, \* LocationSpec: its value before the last operation
    lop,        \* LocationSpec: name of the last operation
    argEnd,     \* LocationSpec: usize argument of the last operation
    argWith     \* LocationSpec: Span argument of the last operation

spanVars ==
    <<span, old, op, argPos, argSpan, ret, retBool, retUsize, panicked>>

mapVars == <<tree, fcfg, mop, out, log>>

stripVars == <<ty, a, b, c, bmeta, sop, sres>>

locationVars == <<location, oldLocation, lop, argEnd, argWith>>

vars == <<spanVars, mapVars, stripVars, locationVars>>

\* The variables of the specifications that are not running, idle.
MapIdle ==
    /\ tree = <<>>
    /\ fcfg = <<>>
    /\ mop = "none"
    /\ out = <<>>
    /\ log = <<>>

StripIdle ==
    /\ ty = <<"int">>
    /\ a = 0
    /\ b = 0
    /\ c = 0
    /\ bmeta = "M"
    /\ sop = "none"
    /\ sres = FALSE

LocationIdle ==
    /\ location = Location_new("f1", Span_new(0, 0))
    /\ oldLocation = Location_new("f1", Span_new(0, 0))
    /\ lop = "none"
    /\ argEnd = 0
    /\ argWith = Span_new(0, 0)

SpanInit ==
    /\ span = Span_new(0, 0)
    /\ old = Span_new(0, 0)
    /\ op = "new"
    /\ argPos = 0
    /\ argSpan = Span_new(0, 0)
    /\ ret = Span_new(0, 0)
    /\ retBool = FALSE
    /\ retUsize = 0
    /\ panicked = FALSE

\* Common frame of a Span operation: records the operation and its inputs
\* (pos and other are 0 and the empty span at 0 for an operation without one).
Called(name, pos, other) ==
    /\ ~panicked
    /\ old' = span
    /\ op' = name
    /\ argPos' = pos
    /\ argSpan' = other
    /\ UNCHANGED <<mapVars, stripVars, locationVars>>

\* An operation on `&mut self` that returns nothing: the object becomes s.
Mutated(s) ==
    /\ span' = s
    /\ ret' = s
    /\ retBool' = FALSE
    /\ retUsize' = 0
    /\ panicked' = FALSE

\* An operation on `&self` that returns the span r.
Returned(r) ==
    /\ span' = span
    /\ ret' = r
    /\ retBool' = FALSE
    /\ retUsize' = 0
    /\ panicked' = FALSE

NoSpan == Span(0, 0)

SpanNew ==
    \E s \in Usize, e \in Usize :
        /\ Called("new", s, Span(s, e))
        /\ Mutated(Span_new(s, e))

SpanFromPos ==
    \E p \in Usize :
        /\ Called("from_usize", p, NoSpan)
        /\ Mutated(Span_from_usize(p))

SpanFromRange ==
    \E s \in Usize, e \in Usize :
        /\ Called("from_range", s, Span(s, e))
        /\ Mutated(Span_from_range(s, e))

SpanContains ==
    \E p \in Usize :
        /\ Called("contains", p, NoSpan)
        /\ span' = span
        /\ ret' = span
        /\ retBool' = Span_contains(span, p)
        /\ retUsize' = 0
        /\ panicked' = FALSE

SpanSetStart ==
    \E p \in Usize :
        /\ Called("set_start", p, NoSpan)
        /\ Mutated(Span_set_start(span, p))

SpanSetEnd ==
    \E p \in Usize :
        /\ Called("set_end", p, NoSpan)
        /\ Mutated(Span_set_end(span, p))

SpanUnion ==
    \E o \in Spans :
        /\ Called("union", 0, o)
        /\ Returned(Span_union(span, o))

SpanAppend ==
    \E o \in Spans :
        /\ Called("append", 0, o)
        /\ Mutated(Span_append(span, o))

SpanInter ==
    \E o \in Spans :
        /\ Called("inter", 0, o)
        /\ Returned(Span_inter(span, o))

SpanClear ==
    /\ Called("clear", 0, NoSpan)
    /\ Mutated(Span_clear(span))

SpanNext ==
    /\ Called("next", 0, NoSpan)
    /\ Returned(Span_next(span))

\* len: the subtraction is checked in builds with overflow checks (it panics)
\* and wraps in builds without them.
SpanLen ==
    /\ Called("len", 0, NoSpan)
    /\ span' = span
    /\ ret' = span
    /\ retBool' = FALSE
    /\ IF LenUnderflows(span)
       THEN \/ /\ retUsize' = Span_len(span)
               /\ panicked' = FALSE
            \/ /\ retUsize' = 0
               /\ panicked' = TRUE
       ELSE /\ retUsize' = Span_len(span)
            /\ panicked' = FALSE

\* push: the addition is checked in builds with overflow checks (it panics and
\* the store never happens) and wraps in builds without them.
SpanPush ==
    \E count \in Usize :
        /\ Called("push", count, NoSpan)
        /\ IF PushOverflows(span, count)
           THEN \/ Mutated(Span_push(span, count))
                \/ /\ span' = span
                   /\ ret' = span
                   /\ retBool' = FALSE
                   /\ retUsize' = 0
                   /\ panicked' = TRUE
           ELSE Mutated(Span_push(span, count))

SpanNextStep ==
    \/ SpanNew
    \/ SpanFromPos
    \/ SpanFromRange
    \/ SpanContains
    \/ SpanSetStart
    \/ SpanSetEnd
    \/ SpanUnion
    \/ SpanAppend
    \/ SpanInter
    \/ SpanClear
    \/ SpanNext
    \/ SpanPush
    \/ SpanLen

Init == SpanInit /\ MapIdle /\ StripIdle /\ LocationIdle

Next == SpanNextStep

Spec == Init /\ [][Next]_vars

(***************************************************************************)
(* A Location driven by its fluent operations: src/location.rs             *)
(***************************************************************************)
LocationInit ==
    /\ location \in {Location_new(file, s) : file \in Files, s \in Spans}
    /\ oldLocation = location
    /\ lop = "new"
    /\ argEnd = 0
    /\ argWith = NoSpan
    /\ SpanInit
    /\ MapIdle
    /\ StripIdle

\* Common frame of a Location operation (end and s are 0 and the empty span
\* at 0 for an operation without one).
LocationCalled(name, end, s) ==
    /\ oldLocation' = location
    /\ lop' = name
    /\ argEnd' = end
    /\ argWith' = s
    /\ UNCHANGED <<spanVars, mapVars, stripVars>>

\* location = location.until(end).
LocationUntil ==
    \E end \in Usize :
        /\ LocationCalled("until", end, NoSpan)
        /\ location' = Location_until(location, end)

\* location = location.with(span).
LocationWith ==
    \E s \in Spans :
        /\ LocationCalled("with", 0, s)
        /\ location' = Location_with(location, s)

LocationNext ==
    \/ LocationUntil
    \/ LocationWith

LocationSpec == LocationInit /\ [][LocationNext]_vars

(***************************************************************************)
(* Meta and the recursive metadata mapping: src/meta.rs                    *)
(***************************************************************************)
\* Deepest nesting of metadata pairs in the trees given to the mapping.
MaxDepth == 3

\* Values of the metadata type M.
Metadata == {"locA", "locB", "locC"}

\* Values the caller's function builds the new metadata (type N) from.
NewMetadata == {"n0", "n1"}

\* Payloads of the innermost value, which carries no metadata.
Payloads == {"x", "y"}

\* Meta(t, metadata): the tuple struct, fields .0 (value) and .1 (metadata).
Meta(t, metadata) == [kind |-> "meta", value |-> t, metadata |-> metadata]

\* The innermost value of a chain: a type of the caller with no metadata.
Leaf(p) == [kind |-> "leaf", value |-> p]

IsMeta(t) == t.kind = "meta"

Ok(v) == [ok |-> TRUE, v |-> v]

Err(e) == [ok |-> FALSE, v |-> e]

RECURSIVE Chains(_)
\* The chains with exactly d nested metadata pairs.
Chains(d) ==
    IF d = 0
    THEN {Leaf(p) : p \in Payloads}
    ELSE {Meta(t, m) : t \in Chains(d - 1), m \in Metadata}

Trees == UNION {Chains(d) : d \in 1 .. MaxDepth}

\* The caller's functions: each maps a metadata through `table`, numbers its
\* invocations (the state it carries), and, as a fallible function, fails on
\* the metadata of failOn.
FnConfigs == [table : [Metadata -> NewMetadata], failOn : SUBSET Metadata]

\* One invocation f(m) of the FnMut in state st (the metadata it has been
\* invoked on so far): its result and its next state.
F(cfg, st, m) ==
    [ret |-> [n |-> cfg.table[m], id |-> Len(st) + 1], st |-> Append(st, m)]

\* One invocation f(m) of the fallible FnMut.
TryF(cfg, st, m) ==
    [ret |-> IF m \in cfg.failOn
             THEN Err([e |-> m, at |-> Len(st) + 1])
             ELSE Ok([n |-> cfg.table[m], id |-> Len(st) + 1]),
     st |-> Append(st, m)]

RECURSIVE Meta_map_metadata_recursively_mut_ref(_, _, _)
RECURSIVE MapMetadataRecursively_mut_ref(_, _, _)
RECURSIVE Meta_try_map_metadata_recursively_mut_ref(_, _, _)
RECURSIVE TryMapMetadataRecursively_mut_ref(_, _, _)

\* MapMetadataRecursively::map_metadata_recursively_mut_ref, by implementor:
\* the impl for Meta calls the inherent method; the innermost value holds no
\* metadata and maps to itself without invoking f.
MapMetadataRecursively_mut_ref(self, cfg, st) ==
    IF IsMeta(self)
    THEN Meta_map_metadata_recursively_mut_ref(self, cfg, st)
    ELSE [ret |-> self, st |-> st]

\* MapMetadataRecursively::map_metadata_recursively (provided method).
MapMetadataRecursively_map(self, cfg, st) ==
    MapMetadataRecursively_mut_ref(self, cfg, st)

\* Mutant: the nested value is mapped before f is invoked on the pair's own
\* metadata (post-order).
Meta_map_metadata_recursively_mut_ref_PostOrder(self, cfg, st) ==
    LET inner == MapMetadataRecursively_mut_ref(self.value, cfg, st)
        meta == F(cfg, inner.st, self.metadata)
    IN  [ret |-> Meta(inner.ret, meta.ret), st |-> meta.st]

\* Meta::map_metadata_recursively_mut_ref.
Meta_map_metadata_recursively_mut_ref(self, cfg, st) ==
    LET meta == F(cfg, st, self.metadata)
        inner == MapMetadataRecursively_mut_ref(self.value, cfg, meta.st)
    IN  [ret |-> Meta(inner.ret, meta.ret), st |-> inner.st]

\* Mutant: f is invoked twice on the pair's metadata.
Meta_map_metadata_recursively_Twice(self, cfg, st) ==
    LET first == F(cfg, st, self.metadata)
        meta == F(cfg, first.st, self.metadata)
        inner == MapMetadataRecursively_map(self.value, cfg, meta.st)
    IN  [ret |-> Meta(inner.ret, meta.ret), st |-> inner.st]

\* Meta::map_metadata_recursively.
Meta_map_metadata_recursively(self, cfg, st) ==
    LET meta == F(cfg, st, self.metadata)
        inner == MapMetadataRecursively_map(self.value, cfg, meta.st)
    IN  [ret |-> Meta(inner.ret, meta.ret), st |-> inner.st]

\* TryMapMetadataRecursively::try_map_metadata_recursively_mut_ref, by
\* implementor.
TryMapMetadataRecursively_mut_ref(self, cfg, st) ==
    IF IsMeta(self)
    THEN Meta_try_map_metadata_recursively_mut_ref(self, cfg, st)
    ELSE [ret |-> Ok(self), st |-> st]

\* TryMapMetadataRecursively::try_map_metadata_recursively (provided method).
TryMapMetadataRecursively_try_map(self, cfg, st) ==
    TryMapMetadataRecursively_mut_ref(self, cfg, st)

\* Mutant: the error of f is only looked at after the nested value has been
\* mapped (the first `?` comes too late).
Meta_try_map_metadata_recursively_mut_ref_LateCheck(self, cfg, st) ==
    LET meta == TryF(cfg, st, self.metadata)
        inner == TryMapMetadataRecursively_mut_ref(self.value, cfg, meta.st)
    IN  IF ~meta.ret.ok
        THEN [ret |-> meta.ret, st |-> inner.st]
        ELSE IF ~inner.ret.ok
             THEN inner
             ELSE [ret |-> Ok(Meta(inner.ret.v, meta.ret.v)), st |-> inner.st]

\* Meta::try_map_metadata_recursively_mut_ref; each `?` returns the error.
Meta_try_map_metadata_recursively_mut_ref(self, cfg, st) ==
    LET meta == TryF(cfg, st, self.metadata)
    IN  IF ~meta.ret.ok
        THEN [ret |-> meta.ret, st |-> meta.st]
        ELSE LET inner ==
                     TryMapMetadataRecursively_mut_ref(self.value, cfg, meta.st)
             IN  IF ~inner.ret.ok
                 THEN inner
                 ELSE [ret |-> Ok(Meta(inner.ret.v, meta.ret.v)),
                       st |-> inner.st]

\* Mutant: the nested value is mapped before f is invoked on the pair's own
\* metadata.
Meta_try_map_metadata_recursively_InnerFirst(self, cfg, st) ==
    LET inner == TryMapMetadataRecursively_try_map(self.value, cfg, st)
    IN  IF ~inner.ret.ok
        THEN inner
        ELSE LET meta == TryF(cfg, inner.st, self.metadata)
             IN  IF ~meta.ret.ok
                 THEN [ret |-> meta.ret, st |-> meta.st]
                 ELSE [ret |-> Ok(Meta(inner.ret.v, meta.ret.v)),
                       st |-> meta.st]

\* Meta::try_map_metadata_recursively.
Meta_try_map_metadata_recursively(self, cfg, st) ==
    LET meta == TryF(cfg, st, self.metadata)
    IN  IF ~meta.ret.ok
        THEN [ret |-> meta.ret, st |-> meta.st]
        ELSE LET inner ==
                     TryMapMetadataRecursively_try_map(self.value, cfg, meta.st)
             IN  IF ~inner.ret.ok
                 THEN inner
                 ELSE [ret |-> Ok(Meta(inner.ret.v, meta.ret.v)),
                       st |-> inner.st]

MapInit ==
    /\ tree \in Trees
    /\ fcfg \in FnConfigs
    /\ mop = "none"
    /\ out = tree
    /\ log = <<>>
    /\ SpanInit
    /\ StripIdle
    /\ LocationIdle

\* tree.map_metadata_recursively(f), f a fresh closure; the call consumes the
\* tree.
MapRecursively ==
    /\ mop = "none"
    /\ LET r == Meta_map_metadata_recursively(tree, fcfg, <<>>)
       IN  /\ out' = r.ret
           /\ log' = r.st
    /\ mop' = "map"
    /\ UNCHANGED <<tree, fcfg, spanVars, stripVars, locationVars>>

\* tree.try_map_metadata_recursively(f).
TryMapRecursively ==
    /\ mop = "none"
    /\ LET r == Meta_try_map_metadata_recursively(tree, fcfg, <<>>)
       IN  /\ out' = r.ret
           /\ log' = r.st
    /\ mop' = "try_map"
    /\ UNCHANGED <<tree, fcfg, spanVars, stripVars, locationVars>>

MapNext ==
    \/ MapRecursively
    \/ TryMapRecursively

MapSpec == MapInit /\ [][MapNext]_vars

(***************************************************************************)
(* The one-level mappings of a pair: Meta::map, Meta::try_map and          *)
(* Meta::map_metadata (src/meta.rs), Loc::try_map (src/loc.rs).            *)
(***************************************************************************)
\* Values the caller's function builds the new value (type U) from.
NewPayloads == {"u0", "u1"}

\* Loc(t, location): the tuple struct, fields .0 (value) and .1 (location).
Loc(t, l) == [kind |-> "loc", value |-> t, location |-> l]

\* The pairs the one-level mappings are applied to.
Pairs ==
    {Meta(p, m) : p \in Payloads, m \in Metadata}
        \cup {Loc(p, Location(file, s)) : p \in Payloads, file \in Files, s \in Spans}

\* The caller's functions: f on the value (infallible as `table`, fallible
\* with failures on failOn) and g on the metadata; each is a closure of its
\* own and carries the arguments it has been invoked on.
PairFnConfigs ==
    [f : [table : [Payloads -> NewPayloads], failOn : SUBSET Payloads],
     g : [table : [Metadata -> NewMetadata]]]

\* Mutant: f is invoked a second time when it has failed.
Meta_try_map_Retry(self, cfg, st) ==
    LET first == TryF(cfg, st, self.value)
        r == IF first.ret.ok THEN first ELSE TryF(cfg, first.st, self.value)
    IN  IF ~r.ret.ok
        THEN [ret |-> r.ret, st |-> r.st]
        ELSE [ret |-> Ok(Meta(r.ret.v, self.metadata)), st |-> r.st]

\* Mutant: g is invoked on a fixed metadata instead of the pair's own.
Meta_map_metadata_OfFixed(self, cfg, st) ==
    LET r == F(cfg, st, "locA")
    IN  [ret |-> Meta(self.value, r.ret), st |-> r.st]

\* Meta::map: Meta(f(self.0), self.1).
Meta_map(self, cfg, st) ==
    LET r == F(cfg, st, self.value)
    IN  [ret |-> Meta(r.ret, self.metadata), st |-> r.st]

\* Meta::try_map: Ok(Meta(f(self.0)?, self.1)).
Meta_try_map(self, cfg, st) ==
    LET r == TryF(cfg, st, self.value)
    IN  IF ~r.ret.ok
        THEN [ret |-> r.ret, st |-> r.st]
        ELSE [ret |-> Ok(Meta(r.ret.v, self.metadata)), st |-> r.st]

\* Meta::map_metadata: Meta(self.0, f(self.1)).
Meta_map_metadata(self, cfg, st) ==
    LET r == F(cfg, st, self.metadata)
    IN  [ret |-> Meta(self.value, r.ret), st |-> r.st]

\* Loc::try_map: Ok(Loc(f(self.0)?, self.1)).
Loc_try_map(self, cfg, st) ==
    LET r == TryF(cfg, st, self.value)
    IN  IF ~r.ret.ok
        THEN [ret |-> r.ret, st |-> r.st]
        ELSE [ret |-> Ok(Loc(r.ret.v, self.location)), st |-> r.st]

\* tree is the pair the caller starts from, out the pair (or the Result) the
\* last mapping returned, log the arguments f and g have been invoked on.
PairInit ==
    /\ tree \in Pairs
    /\ fcfg \in PairFnConfigs
    /\ mop = "none"
    /\ out = tree
    /\ log = [f |-> <<>>, g |-> <<>>]
    /\ SpanInit
    /\ StripIdle
    /\ LocationIdle

\* out.map(f): f takes a T, so the value must not have been mapped yet.
MetaMap ==
    /\ tree.kind = "meta"
    /\ mop \in {"none", "map_metadata"}
    /\ log.f = <<>>
    /\ LET r == Meta_map(out, fcfg.f, log.f)
       IN  /\ out' = r.ret
           /\ log' = [log EXCEPT !.f = r.st]
    /\ mop' = "map"
    /\ UNCHANGED <<tree, fcfg, spanVars, stripVars, locationVars>>

\* out.map_metadata(g): g takes an M, so the metadata must not have been
\* mapped yet.
MetaMapMetadata ==
    /\ tree.kind = "meta"
    /\ mop \in {"none", "map"}
    /\ log.g = <<>>
    /\ LET r == Meta_map_metadata(out, fcfg.g, log.g)
       IN  /\ out' = r.ret
           /\ log' = [log EXCEPT !.g = r.st]
    /\ mop' = "map_metadata"
    /\ UNCHANGED <<tree, fcfg, spanVars, stripVars, locationVars>>

\* tree.try_map(f) on a Meta.
MetaTryMap ==
    /\ tree.kind = "meta"
    /\ mop = "none"
    /\ LET r == Meta_try_map(tree, fcfg.f, log.f)
       IN  /\ out' = r.ret
           /\ log' = [log EXCEPT !.f = r.st]
    /\ mop' = "try_map"
    /\ UNCHANGED <<tree, fcfg, spanVars, stripVars, locationVars>>

\* tree.try_map(f) on a Loc.
LocTryMap ==
    /\ tree.kind = "loc"
    /\ mop = "none"
    /\ LET r == Loc_try_map(tree, fcfg.f, log.f)
       IN  /\ out' = r.ret
           /\ log' = [log EXCEPT !.f = r.st]
    /\ mop' = "try_map"
    /\ UNCHANGED <<tree, fcfg, spanVars, stripVars, locationVars>>

PairNext ==
    \/ MetaMap
    \/ MetaMapMetadata
    \/ MetaTryMap
    \/ LocTryMap

PairSpec == PairInit /\ [][PairNext]_vars

(***************************************************************************)
(* The stripped comparison traits: src/strip.rs, src/strip/*.rs            *)
(***************************************************************************)
\* Largest integer payload.
MaxInt == 1

\* Longest sequence (Vec).
MaxLen == 2

IntVals == 0 .. MaxInt

\* The floating-point payloads: two numbers and a NaN.
FloatVals == {"0.0", "1.0", "NaN"}

\* Values of the metadata type M of the left operand.
Locations == {"locA", "locB"}

\* Values of a second metadata type N, for the heterogeneous comparisons.
OtherMetadata == {"idN"}

\* Keys of the maps.
Keys == {"a", "b"}

\* Types, as the compiler resolves the trait implementations by type.
TInt == <<"int">>

TFloat == <<"float">>

TMeta(T) == <<"meta", T>>

TBox(T) == <<"box", T>>

TOption(T) == <<"option", T>>

TVec(T) == <<"vec", T>>

THashMap(T) == <<"map", T>>

None == <<"None">>

Some(v) == <<"Some", v>>

IsSome(o) == o[1] = "Some"

Box(v) == [boxed |-> v]

Less == "Less"

Equal == "Equal"

Greater == "Greater"

RECURSIVE Values(_, _)
\* The values of type T whose metadata are drawn from metas.
Values(T, metas) ==
    CASE T[1] = "int" -> IntVals
      [] T[1] = "float" -> FloatVals
      [] T[1] = "meta" -> {Meta(v, m) : v \in Values(T[2], metas), m \in metas}
      [] T[1] = "box" -> {Box(v) : v \in Values(T[2], metas)}
      [] T[1] = "option" -> {None} \cup {Some(v) : v \in Values(T[2], metas)}
      [] T[1] = "vec" ->
            UNION {[1 .. n -> Values(T[2], metas)] : n \in 0 .. MaxLen}
      [] T[1] = "map" ->
            UNION {[K -> Values(T[2], metas)] : K \in SUBSET Keys}

RECURSIVE stripped_eq(_, _, _)
RECURSIVE stripped_cmp(_, _, _)
RECURSIVE stripped_partial_cmp(_, _, _)
RECURSIVE stripped_hash(_, _, _)
RECURSIVE PartialEq_eq(_, _, _)

\* primitive!: impl StrippedPartialEq<U> for $id.
primitive_stripped_eq(self, other) == self = other

\* Mutant: the metadata are compared too, as the derived equality does.
Meta_stripped_eq_WithMetadata(T, self, other) ==
    stripped_eq(T, self.value, other.value) /\ self.metadata = other.metadata

\* == on f32/f64 (IEEE 754): a NaN is equal to nothing, itself included.
float_eq(self, other) == self # "NaN" /\ other # "NaN" /\ self = other

\* float!: impl StrippedPartialEq<U> for $id.
float_stripped_eq(self, other) == float_eq(self, other)

\* impl StrippedPartialEq<Meta<U, N>> for Meta<T, M>.
Meta_stripped_eq(T, self, other) == stripped_eq(T, self.value, other.value)

\* impl StrippedPartialEq<Box<U>> for Box<T>.
Box_stripped_eq(T, self, other) == stripped_eq(T, self.boxed, other.boxed)

\* impl StrippedPartialEq<Option<U>> for Option<T>.
Option_stripped_eq(T, self, other) ==
    CASE IsSome(self) /\ IsSome(other) -> stripped_eq(T, self[2], other[2])
      [] ~IsSome(self) /\ ~IsSome(other) -> TRUE
      [] OTHER -> FALSE

\* impl StrippedPartialEq<Vec<U>> for Vec<T>; zip stops at the shorter one.
Vec_stripped_eq(T, self, other) ==
    /\ Len(self) = Len(other)
    /\ \A i \in 1 .. Min(Len(self), Len(other)) :
            stripped_eq(T, self[i], other[i])

\* HashMap::get(key).map_or(false, |v| value.stripped_eq(v)).
HashMap_get_map_or_false(T, value, other, key) ==
    IF key \in DOMAIN other THEN stripped_eq(T, value, other[key]) ELSE FALSE

\* Mutant: the sizes are not compared.
HashMap_stripped_eq_NoLen(T, self, other) ==
    \A key \in DOMAIN self : HashMap_get_map_or_false(T, self[key], other, key)

\* Mutant: the left map may be smaller than the right one.
HashMap_stripped_eq_LenAtMost(T, self, other) ==
    /\ Cardinality(DOMAIN self) <= Cardinality(DOMAIN other)
    /\ \A key \in DOMAIN self : HashMap_get_map_or_false(T, self[key], other, key)

\* impl StrippedPartialEq<HashMap<K, W>> for HashMap<K, V>.
HashMap_stripped_eq(T, self, other) ==
    /\ Cardinality(DOMAIN self) = Cardinality(DOMAIN other)
    /\ \A key \in DOMAIN self : HashMap_get_map_or_false(T, self[key], other, key)

\* StrippedPartialEq::stripped_eq on two values of type ty (their metadata
\* types may differ).
stripped_eq(T, self, other) ==
    CASE T[1] = "int" -> primitive_stripped_eq(self, other)
      [] T[1] = "float" -> float_stripped_eq(self, other)
      [] T[1] = "meta" -> Meta_stripped_eq(T[2], self, other)
      [] T[1] = "box" -> Box_stripped_eq(T[2], self, other)
      [] T[1] = "option" -> Option_stripped_eq(T[2], self, other)
      [] T[1] = "vec" -> Vec_stripped_eq(T[2], self, other)
      [] T[1] = "map" -> HashMap_stripped_eq(T[2], self, other)

\* #[derive(PartialEq)] on Meta: both fields are compared.
Meta_eq(T, self, other) ==
    PartialEq_eq(T, self.value, other.value) /\ self.metadata = other.metadata

\* PartialEq::eq (==) on two values of the same type: derived on Meta, the
\* standard library's structural equality elsewhere.
PartialEq_eq(T, self, other) ==
    CASE T[1] = "int" -> self = other
      [] T[1] = "float" -> float_eq(self, other)
      [] T[1] = "meta" -> Meta_eq(T[2], self, other)
      [] T[1] = "box" -> PartialEq_eq(T[2], self.boxed, other.boxed)
      [] T[1] = "option" ->
            IF IsSome(self) /\ IsSome(other)
            THEN PartialEq_eq(T[2], self[2], other[2])
            ELSE IsSome(self) = IsSome(other)
      [] T[1] = "vec" ->
            /\ Len(self) = Len(other)
            /\ \A i \in 1 .. Min(Len(self), Len(other)) :
                    PartialEq_eq(T[2], self[i], other[i])
      [] T[1] = "map" ->
            /\ DOMAIN self = DOMAIN other
            /\ \A key \in DOMAIN self : PartialEq_eq(T[2], self[key], other[key])

\* primitive!: impl StrippedOrd for $id (Ord::cmp on integers).
primitive_stripped_cmp(self, other) ==
    IF self < other THEN Less ELSE IF self = other THEN Equal ELSE Greater

\* impl StrippedOrd for Meta<T, M>.
Meta_stripped_cmp(T, self, other) == stripped_cmp(T, self.value, other.value)

\* impl StrippedOrd for Box<T>.
Box_stripped_cmp(T, self, other) == stripped_cmp(T, self.boxed, other.boxed)

\* Mutant: None orders after Some in one arm only.
Option_stripped_cmp_NoneGreater(T, self, other) ==
    CASE ~IsSome(self) /\ ~IsSome(other) -> Equal
      [] ~IsSome(self) /\ IsSome(other) -> Greater
      [] IsSome(self) /\ ~IsSome(other) -> Greater
      [] IsSome(self) /\ IsSome(other) -> stripped_cmp(T, self[2], other[2])

\* impl StrippedOrd for Option<T>.
Option_stripped_cmp(T, self, other) ==
    CASE ~IsSome(self) /\ ~IsSome(other) -> Equal
      [] ~IsSome(self) /\ IsSome(other) -> Less
      [] IsSome(self) /\ ~IsSome(other) -> Greater
      [] IsSome(self) /\ IsSome(other) -> stripped_cmp(T, self[2], other[2])

RECURSIVE Vec_stripped_cmp_loop(_, _, _, _)
\* The loop of impl StrippedOrd for Vec<T>, both iterators before element i.
Vec_stripped_cmp_loop(T, self, other, i) ==
    CASE i <= Len(self) /\ i <= Len(other) ->
            LET cmp == stripped_cmp(T, self[i], other[i])
            IN  IF cmp = Equal
                THEN Vec_stripped_cmp_loop(T, self, other, i + 1)
                ELSE cmp
      [] i > Len(self) /\ i <= Len(other) -> Less
      [] i <= Len(self) /\ i > Len(other) -> Greater
      [] i > Len(self) /\ i > Len(other) -> Equal

\* Mutant: the lengths are compared first, the elements only to break a tie.
Vec_stripped_cmp_LengthFirst(T, self, other) ==
    IF Len(self) < Len(other)
    THEN Less
    ELSE IF Len(self) > Len(other)
         THEN Greater
         ELSE Vec_stripped_cmp_loop(T, self, other, 1)

\* impl StrippedOrd for Vec<T>.
Vec_stripped_cmp(T, self, other) == Vec_stripped_cmp_loop(T, self, other, 1)

\* StrippedOrd::stripped_cmp on two values of the same type.
stripped_cmp(T, self, other) ==
    CASE T[1] = "int" -> primitive_stripped_cmp(self, other)
      [] T[1] = "meta" -> Meta_stripped_cmp(T[2], self, other)
      [] T[1] = "box" -> Box_stripped_cmp(T[2], self, other)
      [] T[1] = "option" -> Option_stripped_cmp(T[2], self, other)
      [] T[1] = "vec" -> Vec_stripped_cmp(T[2], self, other)

\* primitive!: impl StrippedPartialOrd<U> for $id (PartialOrd::partial_cmp on
\* integers is Some of their order).
primitive_stripped_partial_cmp(self, other) ==
    Some(IF self < other THEN Less ELSE IF self = other THEN Equal ELSE Greater)

\* float!: impl StrippedPartialOrd<U> for $id (partial_cmp on f32/f64: None
\* when either is a NaN).
float_stripped_partial_cmp(self, other) ==
    IF self = "NaN" \/ other = "NaN"
    THEN None
    ELSE IF self = other
         THEN Some(Equal)
         ELSE IF self = "0.0" THEN Some(Less) ELSE Some(Greater)

\* impl StrippedPartialOrd<Meta<U, N>> for Meta<T, M>.
Meta_stripped_partial_cmp(T, self, other) ==
    stripped_partial_cmp(T, self.value, other.value)

\* impl StrippedPartialOrd<Box<U>> for Box<T>.
Box_stripped_partial_cmp(T, self, other) ==
    stripped_partial_cmp(T, self.boxed, other.boxed)

\* impl StrippedPartialOrd<Option<U>> for Option<T>.
Option_stripped_partial_cmp(T, self, other) ==
    CASE ~IsSome(self) /\ ~IsSome(other) -> Some(Equal)
      [] ~IsSome(self) /\ IsSome(other) -> Some(Less)
      [] IsSome(self) /\ ~IsSome(other) -> Some(Greater)
      [] IsSome(self) /\ IsSome(other) ->
            stripped_partial_cmp(T, self[2], other[2])

RECURSIVE Vec_stripped_partial_cmp_loop(_, _, _, _)
\* The loop of impl StrippedPartialOrd<Vec<U>> for Vec<T>.
Vec_stripped_partial_cmp_loop(T, self, other, i) ==
    CASE i <= Len(self) /\ i <= Len(other) ->
            LET cmp == stripped_partial_cmp(T, self[i], other[i])
            IN  IF cmp = Some(Equal)
                THEN Vec_stripped_partial_cmp_loop(T, self, other, i + 1)
                ELSE cmp
      [] i > Len(self) /\ i <= Len(other) -> Some(Less)
      [] i <= Len(self) /\ i > Len(other) -> Some(Greater)
      [] i > Len(self) /\ i > Len(other) -> Some(Equal)

\* impl StrippedPartialOrd<Vec<U>> for Vec<T>.
Vec_stripped_partial_cmp(T, self, other) ==
    Vec_stripped_partial_cmp_loop(T, self, other, 1)

\* StrippedPartialOrd::stripped_partial_cmp on two values of type ty (their
\* metadata types may differ).
stripped_partial_cmp(T, self, other) ==
    CASE T[1] = "int" -> primitive_stripped_partial_cmp(self, other)
      [] T[1] = "float" -> float_stripped_partial_cmp(self, other)
      [] T[1] = "meta" -> Meta_stripped_partial_cmp(T[2], self, other)
      [] T[1] = "box" -> Box_stripped_partial_cmp(T[2], self, other)
      [] T[1] = "option" -> Option_stripped_partial_cmp(T[2], self, other)
      [] T[1] = "vec" -> Vec_stripped_partial_cmp(T[2], self, other)

\* The words the container implementations feed to the hasher.
HashTagNone == 0

HashTagSome == 255

HashTagVec == 255

\* Hash::hash of an integer: one word fed to the hasher, whose state is the
\* sequence of words it has been fed.
Hash_hash(word, state) == Append(state, word)

\* primitive!: impl StrippedHash for $id.
primitive_stripped_hash(self, state) == Hash_hash(self, state)

\* Mutant: the metadata is hashed after the value (a word that tells the
\* metadata apart).
Meta_stripped_hash_WithMetadata(T, self, state) ==
    Hash_hash(IF self.metadata = "locA" THEN 1 ELSE 2,
              stripped_hash(T, self.value, state))

\* impl StrippedHash for Meta<T, M>.
Meta_stripped_hash(T, self, state) == stripped_hash(T, self.value, state)

\* impl StrippedHash for Box<T>.
Box_stripped_hash(T, self, state) == stripped_hash(T, self.boxed, state)

\* impl StrippedHash for Option<T>.
Option_stripped_hash(T, self, state) ==
    IF ~IsSome(self)
    THEN Hash_hash(HashTagNone, state)
    ELSE stripped_hash(T, self[2], Hash_hash(HashTagSome, state))

RECURSIVE Vec_stripped_hash_loop(_, _, _, _)
\* `for value in self { value.stripped_hash(state) }`, from element i on.
Vec_stripped_hash_loop(T, self, state, i) ==
    IF i > Len(self)
    THEN state
    ELSE Vec_stripped_hash_loop(T, self, stripped_hash(T, self[i], state), i + 1)

\* impl StrippedHash for Vec<T>.
Vec_stripped_hash(T, self, state) ==
    Vec_stripped_hash_loop(T, self, Hash_hash(HashTagVec, state), 1)

\* StrippedHash::stripped_hash: the hasher's state after hashing self.
stripped_hash(T, self, state) ==
    CASE T[1] = "int" -> primitive_stripped_hash(self, state)
      [] T[1] = "meta" -> Meta_stripped_hash(T[2], self, state)
      [] T[1] = "box" -> Box_stripped_hash(T[2], self, state)
      [] T[1] = "option" -> Option_stripped_hash(T[2], self, state)
      [] T[1] = "vec" -> Vec_stripped_hash(T[2], self, state)

RECURSIVE strip(_, _)

\* primitive!: impl Strip for $id.
primitive_strip(self) == self

\* float!: impl Strip for $id.
float_strip(self) == self

\* impl Strip for Meta<T, M>: self.0.strip().
Meta_strip(T, self) == strip(T, self.value)

\* impl Strip for Box<T>: Box::new((*self).strip()).
Box_strip(T, self) == Box(strip(T, self.boxed))

\* impl Strip for Option<T>: self.map(T::strip).
Option_strip(T, self) == IF IsSome(self) THEN Some(strip(T, self[2])) ELSE None

\* Mutant: the stripped elements are collected in reverse order.
Vec_strip_Reversed(T, self) ==
    [i \in 1 .. Len(self) |-> strip(T, self[Len(self) + 1 - i])]

\* impl Strip for Vec<T>: self.into_iter().map(T::strip).collect().
Vec_strip(T, self) == [i \in 1 .. Len(self) |-> strip(T, self[i])]

\* Strip::strip: the value without its metadata.
strip(T, self) ==
    CASE T[1] = "int" -> primitive_strip(self)
      [] T[1] = "float" -> float_strip(self)
      [] T[1] = "meta" -> Meta_strip(T[2], self)
      [] T[1] = "box" -> Box_strip(T[2], self)
      [] T[1] = "option" -> Option_strip(T[2], self)
      [] T[1] = "vec" -> Vec_strip(T[2], self)

RECURSIVE HasMap(_)
\* The type contains a HashMap, which has stripped equality only.
HasMap(T) == T[1] = "map" \/ (Len(T) > 1 /\ HasMap(T[2]))

RECURSIVE HasFloat(_)
\* The type contains a float, which has the partial traits only (no
\* StrippedEq, StrippedOrd, StrippedHash).
HasFloat(T) == T[1] = "float" \/ (Len(T) > 1 /\ HasFloat(T[2]))

\* The types the comparisons are applied to.
StripTypes ==
    {TInt, TMeta(TInt), TBox(TMeta(TInt)), TOption(TMeta(TInt)),
     TVec(TInt), TVec(TMeta(TInt)), TVec(TOption(TMeta(TInt))),
     TMeta(TOption(TMeta(TInt))), THashMap(TMeta(TInt)),
     TFloat, TMeta(TFloat), TVec(TMeta(TFloat))}

\* Two values of one type; the metadata of b are of a's metadata type or of
\* another one.
StripInit ==
    /\ ty \in StripTypes
    /\ bmeta \in {"M", "N"}
    /\ a \in Values(ty, Locations)
    /\ b \in Values(ty, IF bmeta = "M" THEN Locations ELSE OtherMetadata)
    /\ c = b
    /\ sop = "none"
    /\ sres = FALSE
    /\ SpanInit
    /\ MapIdle
    /\ LocationIdle

\* The types with a total stripped order (no HashMap, no float).
OrdTypes == {T \in StripTypes : ~HasMap(T) /\ ~HasFloat(T)}

\* Three values of one type, with the same metadata type.
OrdInit ==
    /\ ty \in OrdTypes
    /\ bmeta = "M"
    /\ a \in Values(ty, {"locA"})
    /\ b \in Values(ty, {"locB"})
    /\ c \in Values(ty, {"locC"})
    /\ sop = "none"
    /\ sres = FALSE
    /\ SpanInit
    /\ MapIdle
    /\ LocationIdle

\* Frame of one comparison of the values drawn.
Compared(name) ==
    /\ sop = "none"
    /\ sop' = name
    /\ UNCHANGED <<ty, a, b, c, bmeta, spanVars, mapVars, locationVars>>

\* a.stripped_eq(&b) and b.stripped_eq(&a).
StrippedEq ==
    /\ Compared("eq")
    /\ sres' = [ab |-> stripped_eq(ty, a, b), ba |-> stripped_eq(ty, b, a)]

\* a == b, which needs both of the same type.
DerivedEq ==
    /\ bmeta = "M"
    /\ Compared("derived_eq")
    /\ sres' = [ab |-> PartialEq_eq(ty, a, b)]

\* stripped_cmp, on values of the same type (other: &Self).
StrippedCmp ==
    /\ bmeta = "M"
    /\ ty \in OrdTypes
    /\ Compared("cmp")
    /\ sres' = [ab |-> stripped_cmp(ty, a, b), ba |-> stripped_cmp(ty, b, a),
                bc |-> stripped_cmp(ty, b, c), ac |-> stripped_cmp(ty, a, c)]

\* a.stripped_partial_cmp(&b) and b.stripped_partial_cmp(&a).
StrippedPartialCmp ==
    /\ ~HasMap(ty)
    /\ Compared("partial_cmp")
    /\ sres' = [ab |-> stripped_partial_cmp(ty, a, b),
                ba |-> stripped_partial_cmp(ty, b, a)]

\* a.stripped_hash(h) and b.stripped_hash(h'), each with a fresh hasher.
StrippedHash ==
    /\ ~HasMap(ty)
    /\ ~HasFloat(ty)
    /\ Compared("hash")
    /\ sres' = [a |-> stripped_hash(ty, a, <<>>), b |-> stripped_hash(ty, b, <<>>)]

\* a.strip() and b.strip() (HashMap does not implement Strip).
StripValues ==
    /\ ~HasMap(ty)
    /\ Compared("strip")
    /\ sres' = [a |-> strip(ty, a), b |-> strip(ty, b)]

\* Two sequences of one type, stripped each on its own and stripped after
\* the caller has concatenated them.
StripConcat ==
    /\ ty[1] = "vec"
    /\ bmeta = "M"
    /\ Compared("strip_concat")
    /\ sres' = [a |-> strip(ty, a), b |-> strip(ty, b), ab |-> strip(ty, a \o b)]

StripNext ==
    \/ StrippedEq
    \/ DerivedEq
    \/ StrippedCmp
    \/ StrippedPartialCmp
    \/ StrippedHash
    \/ StripValues
    \/ StripConcat

StripSpec == StripInit /\ [][StripNext]_vars

OrdSpec == OrdInit /\ [][StripNext]_vars

ContainsIsHalfOpenRange ==
    op = "contains" =>
        (retBool <=> (old.start <= argPos /\ argPos < old.end))

(***************************************************************************)
(* Claims about the recursive metadata mapping, checked under MapSpec.     *)
(***************************************************************************)
RECURSIVE MetadataOutermostFirst(_)
\* The metadata of a tree, the outermost pair's first (pre-order).
MetadataOutermostFirst(t) ==
    IF IsMeta(t)
    THEN <<t.metadata>> \o MetadataOutermostFirst(t.value)
    ELSE <<>>

RECURSIVE Innermost(_)
\* The value under every metadata pair of a tree.
Innermost(t) == IF IsMeta(t) THEN Innermost(t.value) ELSE t

\* The positions, in visiting order, of the nodes on which f fails.
FailingNodes ==
    LET pre == MetadataOutermostFirst(tree)
    IN  {i \in 1 .. Len(pre) : pre[i] \in fcfg.failOn}

FirstFailingNode == CHOOSE k \in FailingNodes : \A j \in FailingNodes : k <= j

\* C3: when f fails on the k-th node in visiting order, the fallible mapping
\* returns exactly that invocation's error, no tree, and f has been invoked
\* exactly k times, on the first k nodes.
TryMapStopsAtFirstFailure ==
    (mop = "try_map" /\ FailingNodes # {}) =>
        LET pre == MetadataOutermostFirst(tree)
            k == FirstFailingNode
        IN  /\ out = Err([e |-> pre[k], at |-> k])
            /\ Len(log) = k
            /\ log = SubSeq(pre, 1, k)

\* C3 witness: a three-node tree where f fails on the second node visited
\* (and would fail on the third too): one error, two invocations.
TryMapFailedOnSecondOfThree ==
    /\ mop = "try_map"
    /\ Len(MetadataOutermostFirst(tree)) = 3
    /\ FailingNodes = {2, 3}
    /\ ~out.ok
    /\ Len(log) = 2

\* C4: the log of a function that records every metadata it is invoked on is
\* the pre-order enumeration of the tree's metadata, and the state it carries
\* runs through the whole traversal: the pair at depth i received the result
\* of the i-th invocation.
MapVisitsInPreOrder ==
    mop = "map" =>
        LET new == MetadataOutermostFirst(out)
        IN  /\ log = MetadataOutermostFirst(tree)
            /\ Len(new) = Len(log)
            /\ \A i \in 1 .. Len(new) : new[i].id = i

\* C4 witness: three nested pairs with three different metadata, mapped.
MappedThreeDistinct ==
    /\ mop = "map"
    /\ Len(log) = 3
    /\ Cardinality({log[i] : i \in 1 .. 3}) = 3

\* C5: the mapped tree has the same nesting and the same innermost value,
\* each pair's metadata is f applied to that pair's original metadata, and f
\* is invoked exactly once per pair.
MapPreservesShape ==
    mop = "map" =>
        LET pre == MetadataOutermostFirst(tree)
            new == MetadataOutermostFirst(out)
        IN  /\ Len(log) = Len(pre)
            /\ Len(new) = Len(pre)
            /\ Innermost(out) = Innermost(tree)
            /\ \A i \in 1 .. Len(pre) : new[i].n = fcfg.table[pre[i]]

\* C5 witness: a three-pair tree mapped by a function that is not constant.
MappedThreeByNonConstant ==
    /\ mop = "map"
    /\ Len(MetadataOutermostFirst(out)) = 3
    /\ Cardinality({fcfg.table[m] : m \in Metadata}) > 1
    /\ Len(log) = 3

(***************************************************************************)
(* Claims about the stripped comparisons, checked under StripSpec and      *)
(* OrdSpec.                                                                *)
(***************************************************************************)
\* a and b are metadata pairs of the same value with different metadata.
SameValueOtherMetadata ==
    /\ ty[1] = "meta"
    /\ a.value = b.value
    /\ a.metadata # b.metadata

\* C6 as stated: two metadata pairs of the same value and different metadata,
\* of the same metadata type or not, are stripped-equal, whatever the value,
\* and are not equal under the derived equality.
StrippedEqIgnoresMetadataOfEveryValue ==
    SameValueOtherMetadata =>
        /\ sop = "eq" => (sres.ab /\ sres.ba)
        /\ sop = "derived_eq" => ~sres.ab

\* C6, amended: two metadata pairs of the same value and different metadata,
\* of the same metadata type or not, are not equal under the derived equality,
\* and are stripped-equal (in both directions) when the value is stripped-equal
\* to itself, as every value that holds no NaN is.
StrippedEqIgnoresMetadata ==
    SameValueOtherMetadata =>
        /\ (sop = "eq" /\ stripped_eq(ty[2], a.value, a.value)) =>
                (sres.ab /\ sres.ba)
        /\ sop = "derived_eq" => ~sres.ab

\* C6 witness: pairs whose metadata are of two different types, compared.
StrippedEqAcrossMetadataTypes ==
    /\ SameValueOtherMetadata
    /\ bmeta = "N"
    /\ sop = "eq"
    /\ sres.ab

\* C7: stripped_cmp is Equal exactly when stripped_eq holds, is antisymmetric
\* (swapping the operands reverses the order) and is transitive.
StrippedCmpIsTotalOrder ==
    sop = "cmp" =>
        /\ (sres.ab = Equal) <=> stripped_eq(ty, a, b)
        /\ (sres.ab = Less) <=> (sres.ba = Greater)
        /\ (sres.ab = Greater) <=> (sres.ba = Less)
        /\ (sres.ab # Greater /\ sres.bc # Greater) => sres.ac # Greater
        /\ (sres.ab = Less /\ sres.bc # Greater) => sres.ac = Less
        /\ (sres.ab # Greater /\ sres.bc = Less) => sres.ac = Less

\* C7 witness: sequences a, b, c with a stripped-equal to b (their metadata
\* differ) and b before c.
StrippedCmpChain ==
    /\ sop = "cmp"
    /\ ty = TVec(TOption(TMeta(TInt)))
    /\ Len(a) = 2
    /\ a # b
    /\ sres.ab = Equal
    /\ sres.bc = Less
    /\ sres.ac = Less

\* C8: two maps are stripped-equal exactly when they have the same size and
\* every key of the left one is in the right one with the same payload; maps
\* of different sizes are stripped-equal in neither direction.
MapStrippedEqIsSizeAndLeftKeys ==
    (ty = THashMap(TMeta(TInt)) /\ sop = "eq") =>
        LET sameSize == Cardinality(DOMAIN a) = Cardinality(DOMAIN b)
            leftKeys == \A k \in DOMAIN a :
                            k \in DOMAIN b /\ a[k].value = b[k].value
        IN  /\ sres.ab <=> (sameSize /\ leftKeys)
            /\ ~sameSize => (~sres.ab /\ ~sres.ba)

\* C8 witness: {"a": pair(1, locA)} and {"a": pair(1, locB)} compared.
MapsEqualDespiteLocations ==
    /\ ty = THashMap(TMeta(TInt))
    /\ sop = "eq"
    /\ a = [k \in {"a"} |-> Meta(1, "locA")]
    /\ b = [k \in {"a"} |-> Meta(1, "locB")]
    /\ sres.ab

\* The positions where the elements of a and b are not stripped-Equal.
Unequal == {i \in 1 .. Min(Len(a), Len(b)) : stripped_cmp(ty[2], a[i], b[i]) # Equal}

\* The lexicographic order of a and b.
Lexicographic ==
    IF Unequal # {}
    THEN LET i == CHOOSE i \in Unequal : \A j \in Unequal : i <= j
         IN  stripped_cmp(ty[2], a[i], b[i])
    ELSE IF Len(a) < Len(b)
         THEN Less
         ELSE IF Len(a) > Len(b) THEN Greater ELSE Equal

\* The positions where the elements of a and b are not Some(Equal) under the
\* partial comparison (which also compares across metadata types).
PartiallyUnequal ==
    {i \in 1 .. Min(Len(a), Len(b)) :
        stripped_partial_cmp(ty[2], a[i], b[i]) # Some(Equal)}

\* The lexicographic partial order of a and b.
PartialLexicographic ==
    IF PartiallyUnequal # {}
    THEN LET i == CHOOSE i \in PartiallyUnequal :
                      \A j \in PartiallyUnequal : i <= j
         IN  stripped_partial_cmp(ty[2], a[i], b[i])
    ELSE IF Len(a) < Len(b)
         THEN Some(Less)
         ELSE IF Len(a) > Len(b) THEN Some(Greater) ELSE Some(Equal)

\* C9: the stripped comparison of two sequences (total or partial) is the
\* comparison of their first pair of elements that is not Equal, and
\* otherwise the shorter one is first, equal lengths being Equal.
VecStrippedCmpIsLexicographic ==
    ty[1] = "vec" =>
        /\ sop = "cmp" => sres.ab = Lexicographic
        /\ sop = "partial_cmp" => sres.ab = PartialLexicographic

\* C9 witness: two sequences of two elements whose first elements are
\* stripped-equal with different metadata, decided by the second pair.
VecDecidedBySecondPair ==
    /\ ty = TVec(TMeta(TInt))
    /\ sop = "cmp"
    /\ Len(a) = 2
    /\ Len(b) = 2
    /\ a[1] # b[1]
    /\ Unequal = {2}
    /\ sres.ab = Less

\* C10: stripped-equal values feed the hasher the same sequence of words.
StrippedHashAgreesWithStrippedEq ==
    (sop = "hash" /\ stripped_eq(ty, a, b)) => sres.a = sres.b

\* C10 witness: two stripped-equal sequences of options of pairs, different
\* in their metadata, hashed.
HashedEqualSequences ==
    /\ sop = "hash"
    /\ ty = TVec(TOption(TMeta(TInt)))
    /\ Len(a) = 2
    /\ IsSome(a[1])
    /\ a # b
    /\ stripped_eq(ty, a, b)

(***************************************************************************)
(* Claims on the Span operations, under Spec.                              *)
(***************************************************************************)
\* C11: Span::new(start, end) is the span start..max(start, end); for
\* start <= end its len() is end - start, for end < start its end is start and
\* it is empty (len() is 0).
SpanNewClampsEnd ==
    /\ op = "new" =>
          /\ span.start = argPos
          /\ span.end = Max(argPos, argSpan.end)
          /\ (argSpan.end < argPos => span.end = span.start)
    /\ (op = "len" /\ ~panicked) =>
          \A s \in Usize, e \in Usize :
              old = Span_new(s, e) =>
                  /\ (s <= e => retUsize = e - s)
                  /\ (e < s => old.end = s /\ retUsize = 0)

\* C11 witness: a span has been built with end < start.
SpanNewClamped ==
    /\ op = "new"
    /\ argSpan.end < argPos
    /\ span = Span(argPos, argPos)

\* The span s covers the span t.
Covers(s, t) == s.start <= t.start /\ t.end <= s.end

\* C12: a.union(b) is min(a.start, b.start)..max(a.end, b.end), the smallest
\* span that covers a and b, the gap between them included.
UnionIsSmallestCover ==
    op = "union" =>
        /\ ret.start = Min(old.start, argSpan.start)
        /\ ret.end = Max(old.end, argSpan.end)
        /\ Covers(ret, old)
        /\ Covers(ret, argSpan)
        /\ \A s \in Spans : (Covers(s, old) /\ Covers(s, argSpan)) => Covers(s, ret)

\* C12 witness: the union of two nonempty spans with a gap between them.
UnionOverGap ==
    /\ op = "union"
    /\ old.start < old.end
    /\ old.end < argSpan.start
    /\ argSpan.start < argSpan.end
    /\ ret = Span(old.start, argSpan.end)

\* The two spans share at least one position.
Overlap(s, t) == Max(s.start, t.start) < Min(s.end, t.end)

\* C13: a.inter(b) is max(starts)..min(ends) when a and b overlap, and the
\* empty span at max(a.start, b.start) when they do not.
InterIsOverlapOrEmptyAtMaxStart ==
    op = "inter" =>
        IF Overlap(old, argSpan)
        THEN ret = Span(Max(old.start, argSpan.start), Min(old.end, argSpan.end))
        ELSE ret = Span(Max(old.start, argSpan.start),
                        Max(old.start, argSpan.start))

\* C13 witness: the intersection of two nonempty spans with a gap between them.
InterOverGap ==
    /\ op = "inter"
    /\ old.start < old.end
    /\ old.end < argSpan.start
    /\ argSpan.start < argSpan.end
    /\ ret = Span(argSpan.start, argSpan.start)

\* C14: a.union(a) == a, a.union(b) == b.union(a), a.inter(b) == b.inter(a).
UnionInterCommute ==
    /\ op = "union" =>
          /\ ret = Span_union(argSpan, old)
          /\ (argSpan = old => ret = old)
    /\ op = "inter" => ret = Span_inter(argSpan, old)

\* C14 witness: an intersection of two overlapping spans, neither covering the
\* other, equal to the intersection taken the other way round.
InterCommuted ==
    /\ op = "inter"
    /\ old.start < argSpan.start
    /\ argSpan.start < old.end
    /\ old.end < argSpan.end
    /\ ret = Span_inter(argSpan, old)
    /\ ret = Span(argSpan.start, old.end)

\* C15: the intersection of a and b lies within their union:
\* union(a, b).start <= inter(a, b).start and inter(a, b).end <= union(a, b).end.
InterWithinUnion ==
    /\ op = "union" =>
          /\ ret.start <= Span_inter(old, argSpan).start
          /\ Span_inter(old, argSpan).end <= ret.end
    /\ op = "inter" =>
          /\ Span_union(old, argSpan).start <= ret.start
          /\ ret.end <= Span_union(old, argSpan).end

\* C16: after a.append(b), a is the value of a.union(b) before the call (b is
\* passed by value: the caller's b is not touched).
AppendIsUnionInPlace ==
    op = "append" => span = Span_union(old, argSpan)

\* C16 witness: an append that moved both ends of the span.
AppendedBothEnds ==
    /\ op = "append"
    /\ span.start < old.start
    /\ old.end < span.end
    /\ span = Span_union(old, argSpan)

\* C17: after clear, start is the end the span had before and end is unchanged.
ClearCollapsesToEnd ==
    op = "clear" =>
        /\ span.start = old.end
        /\ span.end = old.end

\* C17 witness: a nonempty span has been cleared.
ClearedNonEmpty ==
    /\ op = "clear"
    /\ old.start < old.end
    /\ span = Span(old.end, old.end)

\* C18: push(count) completes for every span and every count, sets end to the
\* previous end plus count and leaves start unchanged.
PushIsTotal ==
    op = "push" =>
        /\ ~panicked
        /\ span.end = old.end + argPos
        /\ span.start = old.start

(***************************************************************************)
(* Claims on the one-level mappings, under PairSpec.                       *)
(***************************************************************************)
\* The pair of the same kind as p, with value v and p's own metadata.
WithValue(p, v) ==
    IF p.kind = "meta" THEN Meta(v, p.metadata) ELSE Loc(v, p.location)

\* C19: try_map(f) on a Meta or a Loc invokes f exactly once, on the original
\* value; when f fails the result is f's error itself and no pair, when f
\* succeeds with u it is Ok of the pair of u with the original metadata.
TryMapReturnsErrorOrPair ==
    mop = "try_map" =>
        LET r == TryF(fcfg.f, <<>>, tree.value).ret
        IN  /\ log.f = <<tree.value>>
            /\ (tree.value \in fcfg.f.failOn) =>
                  /\ ~r.ok
                  /\ out = Err(r.v)
            /\ (tree.value \notin fcfg.f.failOn) =>
                  /\ r.ok
                  /\ out = Ok(WithValue(tree, r.v))

\* C19 witness: try_map on a Meta whose function failed.
TryMapFailed ==
    /\ mop = "try_map"
    /\ tree.kind = "meta"
    /\ tree.value \in fcfg.f.failOn
    /\ ~out.ok
    /\ log.f = <<tree.value>>

\* C20: Meta(v, m).map(f) is Meta(f(v), m), Meta(v, m).map_metadata(g) is
\* Meta(v, g(m)), and applying both, in either order, gives Meta(f(v), g(m)).
MapAndMapMetadataCommute ==
    LET fv == F(fcfg.f, <<>>, tree.value).ret
        gm == F(fcfg.g, <<>>, tree.metadata).ret
    IN  /\ (mop = "map" /\ log.g = <<>>) => out = Meta(fv, tree.metadata)
        /\ (mop = "map_metadata" /\ log.f = <<>>) => out = Meta(tree.value, gm)
        /\ (mop \in {"map", "map_metadata"} /\ log.f # <<>> /\ log.g # <<>>) =>
              /\ out = Meta(fv, gm)
              /\ log = [f |-> <<tree.value>>, g |-> <<tree.metadata>>]

\* C20 witness: map applied after map_metadata.
MappedAfterMapMetadata ==
    /\ mop = "map"
    /\ log.g = <<tree.metadata>>
    /\ out = Meta(F(fcfg.f, <<>>, tree.value).ret,
                  F(fcfg.g, <<>>, tree.metadata).ret)

(***************************************************************************)
(* Claims on Location, under LocationSpec.                                 *)
(***************************************************************************)
\* C22 (as stated): until(end) returns the same location with its span's
\* end set to end, for every end; file and start are unchanged.
UntilSetsEnd ==
    lop = "until" =>
        /\ location.span.end = argEnd
        /\ location.span.start = oldLocation.span.start
        /\ location.file = oldLocation.file

\* C22 (amended): until(end) returns the same location with its span's end
\* set to end when end is not below the span's start, and to the span's
\* start when it is; file and start are unchanged.
UntilSetsEndNotBelowStart ==
    lop = "until" =>
        /\ (argEnd >= oldLocation.span.start => location.span.end = argEnd)
        /\ (argEnd < oldLocation.span.start =>
                location.span.end = oldLocation.span.start)
        /\ location.span.start = oldLocation.span.start
        /\ location.file = oldLocation.file

\* C22 witness: until(end) with end below the start of a nonempty span.
UntilBelowStart ==
    /\ lop = "until"
    /\ oldLocation.span.start < oldLocation.span.end
    /\ argEnd < oldLocation.span.start
    /\ location = Location(oldLocation.file,
                           Span(oldLocation.span.start, oldLocation.span.start))

(***************************************************************************)
(* Claims on Strip and the stripped traits of the containers, under        *)
(* StripSpec.                                                              *)
(***************************************************************************)
\* C21: for sequences xs, ys, strip(concat(xs, ys)) is
\* concat(strip(xs), strip(ys)); a stripped sequence has the length of its
\* input and its i-th element is the stripped i-th input element, which for
\* a metadata pair is the stripped payload of the pair.
StripIsSequenceHomomorphism ==
    sop = "strip_concat" =>
        /\ sres.ab = sres.a \o sres.b
        /\ Len(sres.a) = Len(a)
        /\ Len(sres.b) = Len(b)
        /\ Len(sres.ab) = Len(a) + Len(b)
        /\ \A i \in 1 .. Len(a) :
              /\ sres.a[i] = strip(ty[2], a[i])
              /\ ty[2][1] = "meta" => sres.a[i] = strip(ty[2][2], a[i].value)
              /\ ty[2] = TMeta(TInt) => sres.a[i] = a[i].value

\* C21 witness: two sequences of pairs with distinct payloads and metadata,
\* stripped after concatenation.
StrippedConcatOfPairs ==
    /\ sop = "strip_concat"
    /\ ty = TVec(TMeta(TInt))
    /\ Len(a) = 2
    /\ Len(b) = 1
    /\ a[1].value # a[2].value
    /\ a[1].metadata # a[2].metadata
    /\ sres.ab = <<a[1].value, a[2].value, b[1].value>>

\* The Option half of C23: the first word fed for None differs from the
\* first word fed for Some.
HashTagTellsNoneFromSome ==
    (sop = "hash" /\ ty[1] = "option" /\ ~IsSome(a) /\ IsSome(b)) =>
        sres.a[1] # sres.b[1]

\* The Vec half of C23: the first word fed for an empty sequence differs
\* from the first word fed for a nonempty sequence.
HashTagTellsEmptyVecFromNonEmpty ==
    (sop = "hash" /\ ty[1] = "vec" /\ Len(a) = 0 /\ Len(b) > 0) =>
        sres.a[1] # sres.b[1]

\* C23: the first word fed to the hasher for None differs from the first word
\* fed for Some, and the first word fed for an empty sequence differs from
\* the first word fed for a nonempty sequence.
HashTagTellsEmptyFromNonEmpty ==
    /\ HashTagTellsNoneFromSome
    /\ HashTagTellsEmptyVecFromNonEmpty

\* C24: stripped equality of maps is symmetric: a.stripped_eq(b) and
\* b.stripped_eq(a) agree for all maps a, b over the same keys type (the
\* stripped equality of the values being symmetric).
MapStrippedEqIsSymmetric ==
    (sop = "eq" /\ ty[1] = "map") =>
        /\ sres.ab = sres.ba
        /\ sres.ab => DOMAIN a = DOMAIN b

\* C24 witness: two different maps of two entries, stripped-equal both ways.
MapsEqualBothWays ==
    /\ sop = "eq"
    /\ ty[1] = "map"
    /\ Cardinality(DOMAIN a) = 2
    /\ a # b
    /\ sres.ab
    /\ sres.ba

(***************************************************************************)
(* The fallible and the infallible recursive mapping, under MapSpec.       *)
(***************************************************************************)
\* C25: when the function fails on no metadata of the tree,
\* try_map_metadata_recursively returns Ok of the tree that
\* map_metadata_recursively returns for the same function taken as
\* infallible, and both invoke it on the same metadata in the same order.
TryMapAgreesWithMap ==
    /\ (mop = "try_map" /\ FailingNodes = {}) =>
          LET r == Meta_map_metadata_recursively(tree, fcfg, <<>>)
          IN  /\ out = Ok(r.ret)
              /\ log = r.st
    /\ (mop = "map" /\ FailingNodes = {}) =>
          LET r == Meta_try_map_metadata_recursively(tree, fcfg, <<>>)
          IN  /\ r.ret = Ok(out)
              /\ r.st = log

\* C25 witness: the fallible mapping of three nested pairs with distinct
\* metadata by a function that never fails.
TryMappedThreeWithoutFailure ==
    /\ mop = "try_map"
    /\ fcfg.failOn = {}
    /\ Len(log) = 3
    /\ log[1] # log[2]
    /\ log[2] # log[3]
    /\ out = Ok(Meta_map_metadata_recursively(tree, fcfg, <<>>).ret)
====
